---- MODULE Spec2Model ----
(***************************************************************************)
(* Asset library persistence (src/utils/assetStorage.ts).                  *)
(*                                                                         *)
(* JavaScript values are tagged records:                                   *)
(*   [t |-> "undefined"], [t |-> "null"], [t |-> "num", n |-> 5],          *)
(*   [t |-> "str", s |-> "Hero"], [t |-> "arr", a |-> <<...>>],            *)
(*   [t |-> "obj", ...own keys...].                                        *)
(* An object's own keys are the record's fields other than t, so an item   *)
(* whose name key is missing and an item whose name key holds undefined    *)
(* are different values, as they are in JavaScript.                        *)
(*                                                                         *)
(* localStorage holds one entry, under STORAGE_KEY; its value is           *)
(*   [k |-> "absent"]            getItem returns null                      *)
(*   [k |-> "empty"]             the empty string                          *)
(*   [k |-> "garbage"]           text JSON.parse rejects                   *)
(*   [k |-> "json", v |-> doc]   text that parses to the JSON value doc    *)
(* JSON text is kept modulo the order of an object's keys.                 *)
(***************************************************************************)
EXTENDS Integers, Sequences, FiniteSets, TLC

VARIABLES localStorage, storageMode, lib, last, clock,
          elements, rows, dataTransfer, dragOverId, editing, panel,
          pc, request, operation, messageIndex, response, events, result,
          imagePc, imageRequest, imageResponse, imageResult,
          prompt, isLoading, bar

\* the asset library: the store, each tab's library, the latest call, and the
\* time the next item is created at
assetVars == <<localStorage, storageMode, lib, last, clock>>

\* the layer panel: the elements it is given, the rows it shows, the text
\* carried by the drag in progress, the row the drag is over, each row's
\* editing state, and the latest event with the callbacks it invoked
layerVars == <<elements, rows, dataTransfer, dragOverId, editing, panel>>

\* one generateVideo call: the await it is suspended at, the request it sent,
\* the operation it holds, its rotating-message counter, the download's
\* response, what it has done so far (progress callbacks, timers, requests
\* and their settling), and how it ended
videoVars == <<pc, request, operation, messageIndex, response, events, result>>

\* one editImage or generateImageFromText call: the await it is suspended at,
\* the request it sent, what the request settled with, and how the call ended
imageVars == <<imagePc, imageRequest, imageResponse, imageResult>>

\* the prompt bar: its prompt and isLoading props, and the latest event with
\* the props it saw and the onGenerate calls it made
promptVars == <<prompt, isLoading, bar>>

vars == <<assetVars, layerVars, videoVars, imageVars, promptVars>>

(***************************************************************************)
(* Bounds                                                                  *)
(***************************************************************************)
\* most items a library may hold before addAsset is no longer called
MaxItems == 2
\* items the store accepts in "quota" mode (stands for the byte limit)
QuotaItems == 1
\* most items created one after the other with their own createdAt
MaxAdds == 3
\* height of a layer row; a drop lands at an offset 0..RowHeight from its top
RowHeight == 4

Tabs == {1, 2}

CategorySet == {"character", "scene", "prop"}

(***************************************************************************)
(* JavaScript values                                                       *)
(***************************************************************************)
Undefined == [t |-> "undefined"]
Null == [t |-> "null"]
Num(n) == [t |-> "num", n |-> n]
Str(s) == [t |-> "str", s |-> s]
Arr(s) == [t |-> "arr", a |-> s]

\* an AssetItem with a name key (name is a JS value: a string or undefined)
Item(id, category, name, dataUrl, width, height, createdAt) ==
    [t |-> "obj", id |-> id, category |-> category, name |-> name,
     dataUrl |-> dataUrl, width |-> width, height |-> height,
     createdAt |-> createdAt]

\* an AssetItem without a name key (name?: string left out)
ItemNoName(id, category, dataUrl, width, height, createdAt) ==
    [t |-> "obj", id |-> id, category |-> category,
     dataUrl |-> dataUrl, width |-> width, height |-> height,
     createdAt |-> createdAt]

\* !v
Truthy(v) ==
    CASE v.t = "undefined" -> FALSE
      [] v.t = "null" -> FALSE
      [] v.t = "num" -> v.n # 0
      [] v.t = "str" -> v.s # ""
      [] OTHER -> TRUE

\* v[k] for an object or a primitive that is neither null nor undefined
GetProp(v, k) ==
    IF v.t = "obj" /\ k \in DOMAIN v THEN v[k] ELSE Undefined

\* a.name as the program reads it
NameOf(a) == GetProp(a, "name")

EmptyLibrary == [character |-> Arr(<<>>), scene |-> Arr(<<>>), prop |-> Arr(<<>>)]

(***************************************************************************)
(* JSON.stringify / JSON.parse                                             *)
(***************************************************************************)
\* JSON.stringify of an array element: keys holding undefined are left out
StringifyElem(a) ==
    IF a.t = "obj" /\ "name" \in DOMAIN a /\ a.name = Undefined
    THEN [k \in (DOMAIN a) \ {"name"} |-> a[k]]
    ELSE a

StringifyValue(v) ==
    IF v.t = "arr"
    THEN Arr([i \in 1..Len(v.a) |-> StringifyElem(v.a[i])])
    ELSE v

\* JSON.stringify(lib): the text written under STORAGE_KEY
JSONstringify(l) ==
    [k |-> "json",
     v |-> [t |-> "obj",
            character |-> StringifyValue(l.character),
            scene |-> StringifyValue(l.scene),
            prop |-> StringifyValue(l.prop)]]

\* JSON.parse(raw): a SyntaxError on text that is not JSON
JSONparse(raw) ==
    IF raw.k = "json"
    THEN [threw |-> FALSE, value |-> raw.v]
    ELSE [threw |-> TRUE, value |-> Undefined]

(***************************************************************************)
(* localStorage under STORAGE_KEY                                          *)
(*   storageMode "ok"      reads and writes succeed                        *)
(*   storageMode "quota"   setItem throws QuotaExceededError when the      *)
(*                         value is larger than the store accepts          *)
(*   storageMode "denied"  getItem and setItem throw SecurityError         *)
(***************************************************************************)
Modes == {"ok", "quota", "denied"}

\* number of array elements in a stored document (stands for its byte size)
SizeOfValue(v) == IF v.t = "arr" THEN Len(v.a) ELSE 0

SizeOf(l) == SizeOfValue(l.character) + SizeOfValue(l.scene) + SizeOfValue(l.prop)

\* localStorage.getItem(STORAGE_KEY)
getItem(store, mode) ==
    IF mode = "denied"
    THEN [threw |-> TRUE, raw |-> [k |-> "absent"]]
    ELSE [threw |-> FALSE, raw |-> store]

\* localStorage.setItem(STORAGE_KEY, text): the store after the call
setItem(store, mode, text) ==
    IF mode = "denied" \/ (mode = "quota" /\ SizeOf(text.v) > QuotaItems)
    THEN [threw |-> TRUE, store |-> store]
    ELSE [threw |-> FALSE, store |-> text]

(***************************************************************************)
(* loadAssetLibrary                                                        *)
(***************************************************************************)
\* parsed.character || []
OrEmptyArray(v) == IF Truthy(v) THEN v ELSE Arr(<<>>)

\* the body of the try block of loadAssetLibrary
loadAssetLibraryTry(store, mode) ==
    LET got == getItem(store, mode)
        raw == got.raw
        parsed == JSONparse(raw)
    IN  IF got.threw
        THEN [threw |-> TRUE, ret |-> EmptyLibrary]
        ELSE IF raw.k \in {"absent", "empty"}
        THEN [threw |-> FALSE, ret |-> EmptyLibrary]
        ELSE IF parsed.threw
        THEN [threw |-> TRUE, ret |-> EmptyLibrary]
        ELSE IF parsed.value.t \in {"null", "undefined"}
        THEN [threw |-> TRUE, ret |-> EmptyLibrary]
        ELSE [threw |-> FALSE,
              ret |-> [character |-> OrEmptyArray(GetProp(parsed.value, "character")),
                       scene |-> OrEmptyArray(GetProp(parsed.value, "scene")),
                       prop |-> OrEmptyArray(GetProp(parsed.value, "prop"))]]

\* loadAssetLibrary with the try block left without its catch clause
loadAssetLibrary_NoCatch(store, mode) == loadAssetLibraryTry(store, mode)

\* loadAssetLibrary(): the catch clause turns every throw into the empty library
loadAssetLibrary(store, mode) ==
    LET body == loadAssetLibraryTry(store, mode)
    IN  IF body.threw
        THEN [threw |-> FALSE, ret |-> EmptyLibrary]
        ELSE body

(***************************************************************************)
(* saveAssetLibrary and the three mutators.  A call yields                 *)
(*   threw  whether it raised instead of returning                         *)
(*   ret    the library returned (the input when it raised)                *)
(*   arg    the library object passed in, as it is after the call          *)
(*   store  localStorage after the call                                    *)
(***************************************************************************)
\* the stored elements of a category that the array s lacks
RECURSIVE Missing(_, _)
Missing(stored, s) ==
    IF stored = <<>> THEN <<>>
    ELSE IF \E i \in 1..Len(s) : s[i] = Head(stored)
         THEN Missing(Tail(stored), s)
         ELSE <<Head(stored)>> \o Missing(Tail(stored), s)

MergeValue(v, store, category) ==
    IF store.k = "json" /\ v.t = "arr" /\ GetProp(store.v, category).t = "arr"
    THEN Arr(v.a \o Missing(GetProp(store.v, category).a, v.a))
    ELSE v

\* saveAssetLibrary that merges what is stored into what it writes
saveAssetLibrary_Merge(l, store, mode) ==
    setItem(store, mode,
            [k |-> "json",
             v |-> [t |-> "obj",
                    character |-> MergeValue(StringifyValue(l.character), store, "character"),
                    scene |-> MergeValue(StringifyValue(l.scene), store, "scene"),
                    prop |-> MergeValue(StringifyValue(l.prop), store, "prop")]])

saveAssetLibrary(l, store, mode) ==
    setItem(store, mode, JSONstringify(l))

\* a TypeError raised before anything is written
TypeError(l, store) ==
    [threw |-> TRUE, ret |-> l, arg |-> l, store |-> store]

\* next is built, then saved, then returned
SaveAndReturn(l, next, store, mode) ==
    LET saved == saveAssetLibrary(next, store, mode)
    IN  IF saved.threw
        THEN [threw |-> TRUE, ret |-> l, arg |-> l, store |-> saved.store]
        ELSE [threw |-> FALSE, ret |-> next, arg |-> l, store |-> saved.store]

\* addAsset that returns next without saving it
addAsset_NoSave(l, item, store, mode) ==
    LET cur == l[item.category]
    IN  IF cur.t # "arr"
        THEN TypeError(l, store)
        ELSE [threw |-> FALSE,
              ret |-> [l EXCEPT ![item.category] = Arr(<<item>> \o cur.a)],
              arg |-> l, store |-> store]

\* addAsset that puts the item at the end
addAsset_Append(l, item, store, mode) ==
    LET cur == l[item.category]
    IN  IF cur.t # "arr"
        THEN TypeError(l, store)
        ELSE SaveAndReturn(l, [l EXCEPT ![item.category] = Arr(cur.a \o <<item>>)],
                           store, mode)

\* addAsset that unshifts the item into the array it was given
addAsset_InPlace(l, item, store, mode) ==
    LET cur == l[item.category]
        next == [l EXCEPT ![item.category] = Arr(<<item>> \o cur.a)]
        saved == saveAssetLibrary(next, store, mode)
    IN  IF cur.t # "arr"
        THEN TypeError(l, store)
        ELSE [threw |-> saved.threw, ret |-> next, arg |-> next, store |-> saved.store]

\* [item, ...lib[item.category]]: spreading a non-iterable raises
addAsset(l, item, store, mode) ==
    LET cur == l[item.category]
    IN  IF cur.t # "arr"
        THEN TypeError(l, store)
        ELSE SaveAndReturn(l, [l EXCEPT ![item.category] = Arr(<<item>> \o cur.a)],
                           store, mode)

\* a.id on an array element: null has no properties
HasNullElem(s) == \E i \in 1..Len(s) : s[i].t = "null"

IdIsNot(a, id) == GetProp(a, "id") # id

RECURSIVE FilterIdNot_First(_, _)
\* a filter that drops only the first element with the id
FilterIdNot_First(s, id) ==
    IF s = <<>> THEN <<>>
    ELSE IF IdIsNot(Head(s), id)
         THEN <<Head(s)>> \o FilterIdNot_First(Tail(s), id)
         ELSE Tail(s)

RECURSIVE FilterIdNot_Reversed(_, _)
\* a filter that hands back what it keeps last-first
FilterIdNot_Reversed(s, id) ==
    IF s = <<>> THEN <<>>
    ELSE IF IdIsNot(Head(s), id)
         THEN FilterIdNot_Reversed(Tail(s), id) \o <<Head(s)>>
         ELSE FilterIdNot_Reversed(Tail(s), id)

RECURSIVE FilterIdNot(_, _)
\* s.filter(a => a.id !== id)
FilterIdNot(s, id) ==
    IF s = <<>> THEN <<>>
    ELSE IF IdIsNot(Head(s), id)
         THEN <<Head(s)>> \o FilterIdNot(Tail(s), id)
         ELSE FilterIdNot(Tail(s), id)

\* removeAsset that drops the id from every category
removeAsset_Everywhere(l, category, id, store, mode) ==
    LET cur == l[category]
    IN  IF cur.t # "arr" \/ HasNullElem(cur.a)
        THEN TypeError(l, store)
        ELSE SaveAndReturn(l,
                 [c \in DOMAIN l |->
                     IF l[c].t = "arr" /\ ~HasNullElem(l[c].a)
                     THEN Arr(FilterIdNot(l[c].a, id)) ELSE l[c]],
                 store, mode)

\* lib[category].filter(...): only arrays have filter
removeAsset(l, category, id, store, mode) ==
    LET cur == l[category]
    IN  IF cur.t # "arr" \/ HasNullElem(cur.a)
        THEN TypeError(l, store)
        ELSE SaveAndReturn(l, [l EXCEPT ![category] = Arr(FilterIdNot(cur.a, id))],
                           store, mode)

\* { ...a, name, createdAt: 0 }
WithName_Touch(a, name) ==
    [k \in (DOMAIN a) \cup {"name"} |->
        IF k = "name" THEN Str(name) ELSE IF k = "createdAt" THEN 0 ELSE a[k]]

\* { ...a, name }
WithName(a, name) ==
    [k \in (DOMAIN a) \cup {"name"} |-> IF k = "name" THEN Str(name) ELSE a[k]]

\* a map that renames every element
RenameElem_All(a, id, name) == WithName(a, name)

\* a.id === id ? { ...a, name } : a
RenameElem(a, id, name) ==
    IF GetProp(a, "id") = id THEN WithName(a, name) ELSE a

\* lib[category].map(...): only arrays have map
renameAsset(l, category, id, name, store, mode) ==
    LET cur == l[category]
    IN  IF cur.t # "arr" \/ HasNullElem(cur.a)
        THEN TypeError(l, store)
        ELSE SaveAndReturn(l,
                 [l EXCEPT ![category] =
                     Arr([i \in 1..Len(cur.a) |-> RenameElem(cur.a[i], id, name)])],
                 store, mode)

(***************************************************************************)
(* Inputs                                                                  *)
(***************************************************************************)
\* items the callers add: two share an id within one category, one has
\* name: undefined (AssetAddModal passes name || undefined), one has no
\* name key, one reuses an id in another category
Hero == Item("a", "character", Str("Hero"), "d1", 1, 2, 3)
Anon == Item("a", "character", Undefined, "d2", 2, 1, 4)
Bare == ItemNoName("b", "character", "d3", 3, 3, 5)
Place == Item("a", "scene", Str("Hero"), "d4", 4, 4, 6)
\* an item only ever found in the store
Sword == Item("b", "prop", Str("Hero"), "d5", 5, 5, 7)

Items == {Hero, Anon, Bare, Place}

\* ids given to removeAsset / renameAsset; "c" is the id of no item
Ids == {"a", "b", "c"}

\* names given to renameAsset
Names == {"Villain", "Hero"}

Json(v) == [k |-> "json", v |-> v]

\* values the entry can hold when the page starts
InitialStores ==
    { [k |-> "absent"], [k |-> "empty"], [k |-> "garbage"],
      Json(Null), Json(Num(5)), Json(Arr(<<>>)),
      Json([t |-> "obj"]),
      Json([t |-> "obj", character |-> Num(5)]),
      Json([t |-> "obj", character |-> Arr(<<Null>>), scene |-> Num(0),
            prop |-> Arr(<<>>)]),
      JSONstringify([EmptyLibrary EXCEPT !.prop = Arr(<<Sword>>)]) }

\* the stores two tabs start from
InitialStoresTabs ==
    { [k |-> "absent"],
      JSONstringify([EmptyLibrary EXCEPT !.prop = Arr(<<Sword>>)]) }

Mutators == {"add", "remove", "rename"}

\* the record of the latest call
Call(op, tab, r, arg, before, item, category, id, name) ==
    [op |-> op, tab |-> tab, threw |-> r.threw, arg |-> arg, argAfter |-> r.arg,
     ret |-> r.ret, before |-> before, item |-> item, category |-> category,
     id |-> id, name |-> name]

NoCall ==
    [op |-> "none", tab |-> 0, threw |-> FALSE, arg |-> EmptyLibrary,
     argAfter |-> EmptyLibrary, ret |-> EmptyLibrary, before |-> [k |-> "absent"],
     item |-> Null, category |-> "", id |-> "", name |-> ""]

(***************************************************************************)
(* The application: each tab keeps the library it loaded and replaces it   *)
(* by what a mutator returns.                                              *)
(***************************************************************************)
InitWith(stores, modes) ==
    /\ localStorage \in stores
    /\ storageMode \in modes
    /\ lib = [t \in Tabs |-> loadAssetLibrary(localStorage, storageMode).ret]
    /\ last = NoCall
    /\ clock = 0

\* no layer panel
IdleLayers ==
    /\ elements = <<>>
    /\ rows = <<>>
    /\ dataTransfer = ""
    /\ dragOverId = Null
    /\ editing = <<>>
    /\ panel = [ev |-> "none"]

\* generateVideo has not been called
IdleVideo ==
    /\ pc = "idle"
    /\ request = [t |-> "undefined"]
    /\ operation = [t |-> "undefined"]
    /\ messageIndex = 0
    /\ response = [t |-> "undefined"]
    /\ events = <<>>
    /\ result = [k |-> "none"]

\* neither editImage nor generateImageFromText has been called
IdleImages ==
    /\ imagePc = "idle"
    /\ imageRequest = [t |-> "undefined"]
    /\ imageResponse = [k |-> "none"]
    /\ imageResult = [k |-> "none"]

\* the prompt bar is empty and has seen no event
IdlePrompt ==
    /\ prompt = <<>>
    /\ isLoading = FALSE
    /\ bar = [ev |-> "none"]

Init == InitWith(InitialStores, Modes) /\ IdleLayers /\ IdleVideo /\ IdleImages /\ IdlePrompt

InitTabs ==
    InitWith(InitialStoresTabs, {"ok"}) /\ IdleLayers /\ IdleVideo /\ IdleImages /\ IdlePrompt

\* the tab keeps its library when the call raised
Apply(t, r) ==
    /\ lib' = IF r.threw THEN lib ELSE [lib EXCEPT ![t] = r.ret]
    /\ localStorage' = r.store
    /\ UNCHANGED storageMode

Load(t) ==
    LET r == loadAssetLibrary(localStorage, storageMode)
    IN  /\ lib' = [lib EXCEPT ![t] = r.ret]
        /\ last' = Call("load", t, [threw |-> r.threw, ret |-> r.ret, arg |-> EmptyLibrary],
                        EmptyLibrary, localStorage, Null, "", "", "")
        /\ UNCHANGED <<localStorage, storageMode>>

Add(t, item) ==
    LET r == addAsset(lib[t], item, localStorage, storageMode)
    IN  /\ SizeOf(lib[t]) < MaxItems
        /\ Apply(t, r)
        /\ last' = Call("add", t, r, lib[t], localStorage, item, item.category, item.id, "")

Remove(t, category, id) ==
    LET r == removeAsset(lib[t], category, id, localStorage, storageMode)
    IN  /\ Apply(t, r)
        /\ last' = Call("remove", t, r, lib[t], localStorage, Null, category, id, "")

Rename(t, category, id, name) ==
    LET r == renameAsset(lib[t], category, id, name, localStorage, storageMode)
    IN  /\ Apply(t, r)
        /\ last' = Call("rename", t, r, lib[t], localStorage, Null, category, id, name)

NextOf(tabs, items, ids, names) ==
    \E t \in tabs :
        \/ Load(t)
        \/ \E item \in items : Add(t, item)
        \/ \E category \in CategorySet, id \in ids : Remove(t, category, id)
        \/ \E category \in CategorySet, id \in ids, name \in names :
               Rename(t, category, id, name)

\* one tab
Next == NextOf({1}, Items, Ids, Names) /\ UNCHANGED <<clock, layerVars, videoVars, imageVars, promptVars>>

Spec == Init /\ [][Next]_vars

\* two tabs on the same key
NextTabs == NextOf(Tabs, {Hero, Place}, {"a"}, {"Villain"}) /\ UNCHANGED <<clock, layerVars, videoVars, imageVars, promptVars>>

SpecTabs == InitTabs /\ [][NextTabs]_vars

(***************************************************************************)
(* Items created one after the other: the caller stamps each new item with *)
(* the time of its creation, and the library starts empty.                 *)
(***************************************************************************)
InitOrder ==
    InitWith({[k |-> "absent"]}, {"ok"}) /\ IdleLayers /\ IdleVideo /\ IdleImages /\ IdlePrompt

\* the item created at the time now
NewItem(id, category, now) == Item(id, category, Str("Hero"), "d1", 1, 1, now)

AddNew(t, id, category) ==
    /\ clock < MaxAdds
    /\ Add(t, NewItem(id, category, clock))
    /\ clock' = clock + 1

NextOrder ==
    /\ \/ \E id \in {"a", "b"}, category \in {"character", "scene"} : AddNew(1, id, category)
       \/ \E category \in CategorySet, id \in {"a", "b"} :
              Remove(1, category, id) /\ UNCHANGED clock
       \/ \E category \in CategorySet, id \in {"a", "b"} :
              Rename(1, category, id, "Villain") /\ UNCHANGED clock
    /\ UNCHANGED <<layerVars, videoVars, imageVars, promptVars>>

SpecOrder == InitOrder /\ [][NextOrder]_vars

(***************************************************************************)
(* Layer panel (src/components/LayerPanelMinimizable.tsx).                 *)
(* An element is [id, type, name, parentId, isVisible, isLocked]; name is  *)
(* undefined or Str(text), parentId is undefined or Str(id), and a text is *)
(* a sequence of characters.                                               *)
(***************************************************************************)
Element(id, type, name, parentId) ==
    [id |-> id, type |-> type, name |-> name, parentId |-> parentId,
     isVisible |-> TRUE, isLocked |-> FALSE]

ImageType == <<"i", "m", "g">>
GroupType == <<"g", "r", "p">>

ElA == Element("A", GroupType, Str(<<"S", "k", "y">>), Undefined)
ElB == Element("B", ImageType, Undefined, Undefined)
ElC == Element("C", ImageType, Str(<<>>), Str("A"))
ElD == Element("D", ImageType, Undefined, Str("B"))

\* the element lists the canvas hands to the panel
InitialElements == { <<ElA, ElB, ElC>>, <<ElA, ElB, ElC, ElD>> }

\* text a drag from elsewhere carries: nothing, something that is no id, or
\* the text an inspiration-library drag puts under text/plain
ForeignTexts == {"", "zz", "{\"__makingAsset\":true,\"item\":{\"id\":\"a\"}}"}

IdsOf(els) == {els[i].id : i \in 1..Len(els)}

\* index of the element with the id, 0 when there is none
IndexOf(els, id) ==
    IF id \in IdsOf(els)
    THEN CHOOSE i \in 1..Len(els) : els[i].id = id /\ \A j \in 1..(i - 1) : els[j].id # id
    ELSE 0

Without(els, id) == SelectSeq(els, LAMBDA el : el.id # id)

InsertAt(els, i, el) == SubSeq(els, 1, i - 1) \o <<el>> \o SubSeq(els, i, Len(els))

\* reorder that forgets the dragged element when the target is missing
reorder_DropsDragged(els, draggedId, targetId, position) ==
    IF draggedId = targetId \/ draggedId \notin IdsOf(els)
    THEN els
    ELSE LET dragged == els[IndexOf(els, draggedId)]
             rest == Without(els, draggedId)
             at == IndexOf(rest, targetId)
         IN  IF at = 0 THEN rest
             ELSE InsertAt(rest, IF position = "before" THEN at ELSE at + 1, dragged)

\* reorder that always inserts before the target
reorder_AlwaysBefore(els, draggedId, targetId, position) ==
    IF draggedId = targetId \/ draggedId \notin IdsOf(els) \/ targetId \notin IdsOf(els)
    THEN els
    ELSE LET dragged == els[IndexOf(els, draggedId)]
             rest == Without(els, draggedId)
         IN  InsertAt(rest, IndexOf(rest, targetId), dragged)

\* reorder that swaps the dragged element with the target
reorder_Swap(els, draggedId, targetId, position) ==
    IF draggedId = targetId \/ draggedId \notin IdsOf(els) \/ targetId \notin IdsOf(els)
    THEN els
    ELSE [i \in 1..Len(els) |->
            IF els[i].id = draggedId THEN els[IndexOf(els, targetId)]
            ELSE IF els[i].id = targetId THEN els[IndexOf(els, draggedId)]
            ELSE els[i]]

\* reorder that gives the dragged element the parent of the target
reorder_Reparents(els, draggedId, targetId, position) ==
    IF draggedId = targetId \/ draggedId \notin IdsOf(els) \/ targetId \notin IdsOf(els)
    THEN els
    ELSE LET target == els[IndexOf(els, targetId)]
             dragged == [els[IndexOf(els, draggedId)] EXCEPT !.parentId = target.parentId]
             rest == Without(els, draggedId)
             at == IndexOf(rest, targetId)
         IN  InsertAt(rest, IF position = "before" THEN at ELSE at + 1, dragged)

\* reorder(draggedId, targetId, position): the dragged element is taken out and
\* put back right before or right after the target; nothing happens when the
\* two ids are the same or one of them is the id of no element
reorder(els, draggedId, targetId, position) ==
    IF draggedId = targetId \/ draggedId \notin IdsOf(els) \/ targetId \notin IdsOf(els)
    THEN els
    ELSE LET dragged == els[IndexOf(els, draggedId)]
             rest == Without(els, draggedId)
             at == IndexOf(rest, targetId)
         IN  InsertAt(rest, IF position = "before" THEN at ELSE at + 1, dragged)

\* [...elements].reverse()
Reverse(els) == [i \in 1..Len(els) |-> els[Len(els) + 1 - i]]

\* a row that is not indented
Row_NoIndent(el, level) == [id |-> el.id, level |-> 0, parentId |-> el.parentId]

Row(el, level) == [id |-> el.id, level |-> level, parentId |-> el.parentId]

RECURSIVE RenderFrom(_, _, _, _)
\* the rows of the elements of rest whose parentId is parentId, each followed
\* by the rows of its own children one level deeper
RenderFrom(els, rest, level, parentId) ==
    IF rest = <<>> THEN <<>>
    ELSE IF Head(rest).parentId = parentId
         THEN <<Row(Head(rest), level)>>
              \o RenderFrom(els, els, level + 1, Str(Head(rest).id))
              \o RenderFrom(els, Tail(rest), level, parentId)
         ELSE RenderFrom(els, Tail(rest), level, parentId)

\* a projection that lists every element at the level it is called for
renderOrderedLayers_NoFilter(els, level, parentId) ==
    [i \in 1..Len(els) |-> Row(els[i], level)]

\* renderOrderedLayers(elements, level, parentId)
renderOrderedLayers(els, level, parentId) == RenderFrom(els, els, level, parentId)

\* a panel that reverses the array it was given
renderPanel_InPlace(els) ==
    [rows |-> renderOrderedLayers(Reverse(els), 0, Undefined), elements |-> Reverse(els)]

\* the panel's layer list: the rows shown, and the elements array after the
\* render
renderPanel(els) ==
    [rows |-> renderOrderedLayers(Reverse(els), 0, Undefined), elements |-> els]

\* a drop on the midpoint counts as the lower half
PositionOf_AtLeastHalf(y) == IF 2 * y >= RowHeight THEN "after" ELSE "before"

\* e.clientY - rect.top > rect.height / 2 ? 'after' : 'before'
PositionOf(y) == IF 2 * y > RowHeight THEN "after" ELSE "before"

OnReorder(draggedId, targetId, position) ==
    [fn |-> "onReorder", draggedId |-> draggedId, targetId |-> targetId,
     position |-> position]

\* handleDrop without the test that dragged and target differ
handleDrop_NoSelfTest(text, targetId, y) ==
    IF text # "" /\ targetId # ""
    THEN <<OnReorder(text, targetId, PositionOf(y))>>
    ELSE <<>>

\* handleDrop that hands the two ids over in the wrong order
handleDrop_SwapsIds(text, targetId, y) ==
    IF text # "" /\ targetId # "" /\ text # targetId
    THEN <<OnReorder(targetId, text, PositionOf(y))>>
    ELSE <<>>

\* handleDrop(e, targetId): the callbacks it invokes
handleDrop(text, targetId, y) ==
    IF text # "" /\ targetId # "" /\ text # targetId
    THEN <<OnReorder(text, targetId, PositionOf(y))>>
    ELSE <<>>

RECURSIVE ApplyCalls(_, _)
\* the canvas carries out the requests in the order they were made
ApplyCalls(els, calls) ==
    IF calls = <<>> THEN els
    ELSE ApplyCalls(reorder(els, Head(calls).draggedId, Head(calls).targetId,
                            Head(calls).position),
                    Tail(calls))

Event(ev, id, text, y, calls) ==
    [ev |-> ev, id |-> id, text |-> text, y |-> y, calls |-> calls, before |-> elements]

\* the panel is rendered again after every event
Rerender(els) ==
    LET r == renderPanel(els)
    IN  /\ elements' = r.elements
        /\ rows' = r.rows

RowIds == {rows[i].id : i \in 1..Len(rows)}

NotEditing == [isEditing |-> FALSE, name |-> <<>>]

\* the asset library is empty and untouched, no video is being generated
InitIdleAssets ==
    InitWith({[k |-> "absent"]}, {"ok"}) /\ IdleVideo /\ IdleImages /\ IdlePrompt

InitLayers ==
    /\ InitIdleAssets
    /\ elements \in InitialElements
    /\ rows = renderPanel(elements).rows
    /\ dataTransfer = ""
    /\ dragOverId = Null
    /\ editing = [id \in {} |-> NotEditing]
    /\ panel = [ev |-> "none", id |-> "", text |-> "", y |-> 0, calls |-> <<>>,
                before |-> elements]

\* handleDragStart on a row
DragStart(id) ==
    /\ id \in RowIds
    /\ dataTransfer' = id
    /\ panel' = Event("dragstart", id, id, 0, <<>>)
    /\ Rerender(elements)
    /\ UNCHANGED <<dragOverId, editing>>

\* a drag that started outside the panel
ForeignDragStart(text) ==
    /\ dataTransfer' = text
    /\ panel' = Event("dragstart", "", text, 0, <<>>)
    /\ Rerender(elements)
    /\ UNCHANGED <<dragOverId, editing>>

\* handleDragOver, on the row and on the div around it
DragOver(id) ==
    /\ id \in RowIds
    /\ dragOverId' = Str(id)
    /\ panel' = Event("dragover", id, dataTransfer, 0, <<>>)
    /\ Rerender(elements)
    /\ UNCHANGED <<dataTransfer, editing>>

\* handleDragLeave
DragLeave(id) ==
    /\ id \in RowIds
    /\ dragOverId' = Null
    /\ panel' = Event("dragleave", id, dataTransfer, 0, <<>>)
    /\ Rerender(elements)
    /\ UNCHANGED <<dataTransfer, editing>>

\* a drop on a row: the event reaches handleDrop of the row and then, bubbling,
\* handleDrop of the div around it
Drop(id, y) ==
    LET calls == handleDrop(dataTransfer, id, y) \o handleDrop(dataTransfer, id, y)
    IN  /\ id \in RowIds
        /\ dragOverId' = Null
        /\ panel' = Event("drop", id, dataTransfer, y, calls)
        /\ Rerender(ApplyCalls(elements, calls))
        /\ UNCHANGED <<dataTransfer, editing>>

NextLayers ==
    /\ \/ \E id \in {"A", "B", "C", "D"} : DragStart(id)
       \/ \E text \in ForeignTexts : ForeignDragStart(text)
       \/ \E id \in {"A", "B", "C", "D"} : DragOver(id)
       \/ \E id \in {"A", "B", "C", "D"} : DragLeave(id)
       \/ \E id \in {"A", "B", "C", "D"}, y \in 0..RowHeight : Drop(id, y)
    /\ UNCHANGED <<assetVars, videoVars, imageVars, promptVars>>

SpecLayers == InitLayers /\ [][NextLayers]_vars

(***************************************************************************)
(* Properties                                                              *)
(***************************************************************************)
Returned(op) == last.op = op /\ ~last.threw

MutatorReturned == last.op \in Mutators /\ ~last.threw

\* two array elements are the same item: every property reads the same
\* (a missing name key and a name key holding undefined both read undefined)
SameElem(a, b) ==
    /\ a.t = b.t
    /\ a.t = "obj" =>
         /\ (DOMAIN a) \ {"name"} = (DOMAIN b) \ {"name"}
         /\ \A k \in (DOMAIN a) \ {"name"} : a[k] = b[k]
         /\ NameOf(a) = NameOf(b)

SameValue(v, w) ==
    /\ v.t = w.t
    /\ v.t = "arr" =>
         /\ Len(v.a) = Len(w.a)
         /\ \A i \in 1..Len(v.a) : SameElem(v.a[i], w.a[i])
    /\ v.t # "arr" => v = w

SameLibrary(l, m) ==
    /\ DOMAIN l = DOMAIN m
    /\ \A c \in CategorySet : SameValue(l[c], m[c])

\* C1: after a mutator has returned, the store holds the serialisation of the
\* library it returned, and loadAssetLibrary() gives back a library equal to
\* it, category by category and item by item in the same order.
C1_SaveLoadRoundTrip ==
    MutatorReturned =>
        /\ localStorage = JSONstringify(last.ret)
        /\ ~loadAssetLibrary(localStorage, storageMode).threw
        /\ SameLibrary(loadAssetLibrary(localStorage, storageMode).ret, last.ret)

\* a rename has returned a two-item library one of whose items was added with
\* name: undefined, so what is stored differs from what is in memory
C1_Witness ==
    /\ Returned("rename")
    /\ last.ret.character.t = "arr"
    /\ Len(last.ret.character.a) = 2
    /\ \E i \in 1..2 : last.ret.character.a[i] = Anon
    /\ \E i \in 1..2 : last.ret.character.a[i] = WithName(Bare, "Villain")
    /\ localStorage.v # [t |-> "obj"] @@ last.ret

\* the stored values the program cannot use
Unusable(store) ==
    \/ store.k \in {"absent", "empty", "garbage"}
    \/ store.k = "json" /\ store.v.t \in {"null", "num", "str"}

\* C2: loadAssetLibrary never raises, and on an absent key, the empty string,
\* unparsable text or text that parses to a non-object it returns the empty
\* library.
C2_LoadNeverFails ==
    last.op = "load" =>
        /\ ~last.threw
        /\ (Unusable(last.before) \/ storageMode = "denied") => last.ret = EmptyLibrary

\* loadAssetLibrary ran on the stored text  null
C2_Witness ==
    /\ last.op = "load"
    /\ last.before = Json(Null)
    /\ last.ret = EmptyLibrary
    /\ ~last.threw

IsLibraryOfArrays(l) ==
    /\ DOMAIN l = CategorySet
    /\ \A c \in CategorySet : l[c].t = "arr"

\* C3: every library returned by loadAssetLibrary or by a mutator has exactly
\* the categories character, scene and prop, each of them an array.
C3_ThreeArrays ==
    (last.op = "load" \/ MutatorReturned) => IsLibraryOfArrays(last.ret)

\* C4: addAsset(lib, x) returns a library whose x.category array is x followed
\* by the elements of lib[x.category] in their order: x is first and the array
\* is one longer, whether or not an element already has x's id.
C4_AddPrepends ==
    Returned("add") =>
        LET c == last.item.category
            old == last.arg[c].a
            new == last.ret[c].a
        IN  /\ last.ret[c].t = "arr"
            /\ Len(new) = Len(old) + 1
            /\ new[1] = last.item
            /\ \A i \in 1..Len(old) : new[i + 1] = old[i]

\* an item was added in front of a different item that has the same id
C4_Witness ==
    /\ Returned("add")
    /\ last.item = Anon
    /\ last.arg.character = Arr(<<Hero>>)
    /\ last.ret.character = Arr(<<Anon, Hero>>)

\* C5: a mutator leaves the library it was given as it was: after the call the
\* argument's three arrays and their items are what they were before it.
C5_InputNotModified ==
    last.op \in Mutators => last.argAfter = last.arg

\* addAsset returned a library that differs from its argument
C5_Witness ==
    /\ Returned("add")
    /\ last.ret # last.arg
    /\ last.argAfter = last.arg
    /\ SizeOf(last.arg) = 1

HasId(a, id) == a.t = "obj" /\ "id" \in DOMAIN a /\ a.id = id

NoElemHasId(v, id) == \A i \in 1..Len(v.a) : ~HasId(v.a[i], id)

\* C6: removeAsset(lib, category, id) returns lib with the elements of
\* lib[category] that have the id left out and everything else kept; when no
\* element has the id the result equals the input; removing again changes
\* nothing; and the store is overwritten with the result either way.
C6_RemoveFilters ==
    Returned("remove") =>
        LET c == last.category
            kept == SelectSeq(last.arg[c].a, LAMBDA a : ~HasId(a, last.id))
        IN  /\ last.ret = [last.arg EXCEPT ![c] = Arr(kept)]
            /\ NoElemHasId(last.arg[c], last.id) => last.ret = last.arg
            /\ removeAsset(last.ret, c, last.id, localStorage, storageMode).ret = last.ret
            /\ localStorage = JSONstringify(last.ret)

\* removeAsset was given an id no element has, and still replaced what the
\* store held
C6_Witness ==
    /\ Returned("remove")
    /\ last.id = "c"
    /\ SizeOf(last.arg) = 1
    /\ last.ret = last.arg
    /\ last.before.k = "json"
    /\ last.before # localStorage
    /\ localStorage = JSONstringify(last.ret)

\* C7: renameAsset(lib, category, id, name) returns a library in which the
\* elements of lib[category] with the id have name replaced by name, every
\* other element is unchanged and every element keeps its position; when no
\* element has the id the result equals the input.
C7_RenameReplacesName ==
    Returned("rename") =>
        LET c == last.category
            old == last.arg[c].a
            new == last.ret[c].a
        IN  /\ last.ret[c].t = "arr"
            /\ \A d \in CategorySet \ {c} : last.ret[d] = last.arg[d]
            /\ Len(new) = Len(old)
            /\ \A i \in 1..Len(old) :
                 IF HasId(old[i], last.id)
                 THEN /\ NameOf(new[i]) = Str(last.name)
                      /\ DOMAIN new[i] = (DOMAIN old[i]) \cup {"name"}
                      /\ \A k \in (DOMAIN old[i]) \ {"name"} : new[i][k] = old[i][k]
                 ELSE new[i] = old[i]
            /\ NoElemHasId(last.arg[c], last.id) => last.ret = last.arg

\* a rename hit the first of two elements and not the second
C7_Witness ==
    /\ Returned("rename")
    /\ last.id = "a"
    /\ last.name = "Villain"
    /\ last.arg.character = Arr(<<Hero, Bare>>)
    /\ last.ret.character = Arr(<<WithName(Hero, "Villain"), Bare>>)

\* C8: no local operation raises, whatever the library and whatever the state
\* of the store.
C8_NeverThrows == ~last.threw

\* C9: with two tabs on the same key, a mutator of one tab raises nothing and
\* leaves in the store exactly the serialisation of that tab's library,
\* whatever the store held and whatever the other tab has in memory.
C9_LastWriterWins ==
    last.op \in Mutators =>
        /\ ~last.threw
        /\ lib[last.tab] = last.ret
        /\ localStorage = JSONstringify(lib[last.tab])

InArray(v, a) == v.t = "arr" /\ \E i \in 1..Len(v.a) : v.a[i] = a

\* lost update: tab 1 holds Hero, which was in the store before tab 2's
\* addAsset and is not in it after
C9_Witness ==
    /\ Returned("add")
    /\ last.tab = 2
    /\ last.item = Place
    /\ InArray(lib[1].character, Hero)
    /\ last.before.k = "json" /\ InArray(last.before.v.character, Hero)
    /\ ~InArray(localStorage.v.character, Hero)
    /\ InArray(localStorage.v.scene, Place)

\* what an item is created with, its name apart
CoreKeys == {"id", "category", "dataUrl", "width", "height", "createdAt"}

Core(a) == [k \in CoreKeys |-> a[k]]

KnownCores == {Core(x) : x \in Items \cup {Sword}}

RECURSIVE IsSubSeq(_, _)
\* s is t with some elements left out
IsSubSeq(s, t) ==
    IF s = <<>> THEN TRUE
    ELSE IF t = <<>> THEN FALSE
    ELSE IF Head(s) = Head(t) THEN IsSubSeq(Tail(s), Tail(t))
    ELSE IsSubSeq(s, Tail(t))

\* C10: every item of the library has the id, category, dataUrl, width, height
\* and createdAt of an item as it was added; addAsset and removeAsset return
\* the items they keep as they were, and renameAsset changes nothing of an
\* item but its name.
C10_ItemsImmutable ==
    /\ \A c \in CategorySet :
         lib[1][c].t = "arr" =>
           \A i \in 1..Len(lib[1][c].a) :
             lib[1][c].a[i].t = "obj" => Core(lib[1][c].a[i]) \in KnownCores
    /\ MutatorReturned =>
         \A c \in CategorySet :
           LET old == last.arg[c]
               new == last.ret[c]
           IN  IF old.t # "arr" THEN new = old
               ELSE /\ new.t = "arr"
                    /\ last.op = "add" =>
                         IsSubSeq(old.a, new.a) /\ Len(new.a) <= Len(old.a) + 1
                    /\ last.op = "remove" => IsSubSeq(new.a, old.a)
                    /\ last.op = "rename" =>
                         /\ Len(new.a) = Len(old.a)
                         /\ \A i \in 1..Len(old.a) :
                              /\ new.a[i].t = old.a[i].t
                              /\ old.a[i].t = "obj" => Core(new.a[i]) = Core(old.a[i])

\* a rename changed the name of an item and of nothing else
C10_Witness ==
    /\ Returned("rename")
    /\ last.arg.scene = Arr(<<Place>>)
    /\ last.ret.scene = Arr(<<WithName(Place, "Villain")>>)
    /\ Core(last.ret.scene.a[1]) = Core(Place)
    /\ lib[1] = last.ret

\* C11: in a library grown from the empty one, every category lists its
\* items newest first: the creation times strictly decrease along the array,
\* whatever was removed or renamed in between.
C11_NewestFirst ==
    \A c \in CategorySet :
        /\ lib[1][c].t = "arr"
        /\ \A i, j \in 1..Len(lib[1][c].a) :
             i < j => lib[1][c].a[i].createdAt > lib[1][c].a[j].createdAt

\* three items were added to one category, the middle one was removed and the
\* oldest renamed; the newest is still first
C11_Witness ==
    /\ Returned("rename")
    /\ clock = 3
    /\ lib[1].character.t = "arr"
    /\ Len(lib[1].character.a) = 2
    /\ lib[1].character.a[1].createdAt = 2
    /\ lib[1].character.a[2].createdAt = 0
    /\ NameOf(lib[1].character.a[2]) = Str("Villain")
    /\ NameOf(lib[1].character.a[1]) = Str("Hero")

LayerIds == {"A", "B", "C", "D"}

Positions == {"before", "after"}

\* the list is a rearrangement of the other: same length, same elements, no
\* element twice
IsPermutation(els, of) ==
    /\ Len(els) = Len(of)
    /\ {els[i] : i \in 1..Len(els)} = {of[i] : i \in 1..Len(of)}
    /\ \A i, j \in 1..Len(els) : els[i].id = els[j].id => i = j

\* d sits right before (right after) t
PlacedAt(els, d, t, position) ==
    IF position = "before"
    THEN IndexOf(els, d) + 1 = IndexOf(els, t)
    ELSE IndexOf(els, d) = IndexOf(els, t) + 1

ReorderedWell(els, of, d, t, position) ==
    /\ IsPermutation(els, of)
    /\ PlacedAt(els, d, t, position)
    /\ Without(els, d) = Without(of, d)

\* a drop of one row on another row has been carried out
DroppedOnOther ==
    /\ panel.ev = "drop"
    /\ panel.text \in IdsOf(panel.before)
    /\ panel.text # panel.id

\* C12: reorder with two distinct ids of the list gives a permutation of the
\* list in which the dragged element is right before the target for before
\* and right after it for after, the other elements keeping their order; and
\* that is what a drop of one row on another leaves in the element list.
C12_ReorderPlaces ==
    /\ \A d, t \in IdsOf(elements), position \in Positions :
         d # t => ReorderedWell(reorder(elements, d, t, position), elements, d, t, position)
    /\ DroppedOnOther =>
         ReorderedWell(elements, panel.before, panel.text, panel.id, PositionOf(panel.y))

\* D was dropped on the lower half of A and moved from the end to right
\* after A
C12_Witness ==
    /\ DroppedOnOther
    /\ panel.text = "D" /\ panel.id = "A" /\ PositionOf(panel.y) = "after"
    /\ panel.before = <<ElA, ElB, ElC, ElD>>
    /\ elements = <<ElA, ElD, ElB, ElC>>

Before(els, a, b) == IndexOf(els, a) < IndexOf(els, b)

\* C13: for distinct a and b of the list, reorder(a, b, before) then
\* reorder(a, b, after) leaves a after b; reorder(a, b, before) and
\* reorder(a, b, after) of the same list put a and b in opposite orders and
\* both keep the order of all other elements.
C13_BeforeThenAfter ==
    \A a, b \in IdsOf(elements) :
        a # b =>
          LET first == reorder(elements, a, b, "before")
              second == reorder(elements, a, b, "after")
              both == reorder(first, a, b, "after")
          IN  /\ Before(both, b, a)
              /\ Before(first, a, b)
              /\ Before(second, b, a)
              /\ Without(first, a) = Without(elements, a)
              /\ Without(second, a) = Without(elements, a)
              /\ Without(both, a) = Without(elements, a)

\* C was dropped before A and then after A
C13_Witness ==
    /\ DroppedOnOther
    /\ panel.text = "C" /\ panel.id = "A" /\ PositionOf(panel.y) = "after"
    /\ panel.before = reorder(<<ElA, ElB, ElC, ElD>>, "C", "A", "before")
    /\ Before(panel.before, "C", "A")
    /\ Before(elements, "A", "C")
    /\ Without(elements, "C") = <<ElA, ElB, ElD>>

\* C14: a reorder of an element relative to itself changes nothing, and a
\* drop of a row on itself invokes no onReorder.
C14_SelfReorderNoOp ==
    /\ \A a \in LayerIds, position \in Positions :
         reorder(elements, a, a, position) = elements
    /\ (panel.ev = "drop" /\ panel.text = panel.id) =>
         /\ panel.calls = <<>>
         /\ elements = panel.before

\* B was dropped on B
C14_Witness ==
    /\ panel.ev = "drop"
    /\ panel.text = "B" /\ panel.id = "B"
    /\ panel.calls = <<>>
    /\ elements = panel.before
    /\ elements # <<ElA, ElB, ElC, ElD>> /\ Len(elements) = 4

\* the element with the id
ElementOf(els, id) == els[IndexOf(els, id)]

\* C15: reorder changes no parentId and no other field of any element, only
\* positions, also across parents: every element is in the result as it was.
C15_ReorderKeepsFields ==
    /\ \A d, t \in LayerIds, position \in Positions :
         LET r == reorder(elements, d, t, position)
         IN  /\ IdsOf(r) = IdsOf(elements)
             /\ \A id \in IdsOf(elements) : ElementOf(r, id) = ElementOf(elements, id)
    /\ panel.ev = "drop" =>
         /\ IdsOf(elements) = IdsOf(panel.before)
         /\ \A id \in IdsOf(elements) :
              ElementOf(elements, id) = ElementOf(panel.before, id)

\* C, a child of A, was dropped right after D, a child of B, and is still a
\* child of A
C15_Witness ==
    /\ DroppedOnOther
    /\ panel.text = "C" /\ panel.id = "D"
    /\ ElementOf(elements, "C").parentId = Str("A")
    /\ ElementOf(elements, "D").parentId = Str("B")
    /\ PlacedAt(elements, "C", "D", "after")
    /\ elements # panel.before

\* C16: a reorder whose dragged id or target id is the id of no element
\* leaves the list as it was, the dragged element included.
C16_MissingIdNoOp ==
    /\ \A d, t \in LayerIds \cup ForeignTexts, position \in Positions :
         (d \notin IdsOf(elements) \/ t \notin IdsOf(elements)) =>
            reorder(elements, d, t, position) = elements
    /\ (panel.ev = "drop" /\ panel.text \notin IdsOf(panel.before)) =>
         elements = panel.before

\* a drag from elsewhere was dropped on a row: onReorder was invoked with an
\* id the list does not have, and the list is as it was
C16_Witness ==
    /\ panel.ev = "drop"
    /\ panel.text = "zz"
    /\ panel.calls # <<>>
    /\ panel.calls[1].draggedId = "zz"
    /\ elements = panel.before
    /\ Len(elements) = 3

\* the rows are those of the elements, and only a drop changes the elements
RenderedFaithfully ==
    /\ rows = renderOrderedLayers(Reverse(elements), 0, Undefined)
    /\ elements = IF panel.ev = "drop" THEN ApplyCalls(panel.before, panel.calls)
                  ELSE panel.before

\* C18: among siblings the panel lists a later element of the list before an
\* earlier one, its first row being the last root element of the list; and
\* rendering leaves the elements list as it was.
C18_ReverseOrderNoMutation ==
    /\ RenderedFaithfully
    /\ \A i, j \in 1..Len(rows) :
         (i < j /\ rows[i].parentId = rows[j].parentId) =>
            IndexOf(elements, rows[i].id) > IndexOf(elements, rows[j].id)
    /\ rows # <<>> =>
         /\ rows[1].parentId = Undefined
         /\ \A k \in 1..Len(elements) :
              elements[k].parentId = Undefined => k <= IndexOf(elements, rows[1].id)

\* the panel was rendered again for the list A, B, C, D and shows B, D, A, C
C18_Witness ==
    /\ panel.ev = "dragover"
    /\ elements = <<ElA, ElB, ElC, ElD>>
    /\ [i \in 1..Len(rows) |-> rows[i].id] = <<"B", "D", "A", "C">>

RowsAt(level, parentId) ==
    SelectSeq(rows, LAMBDA r : r.level = level /\ r.parentId = parentId)

RowIdsAt(level, parentId) ==
    [i \in 1..Len(RowsAt(level, parentId)) |-> RowsAt(level, parentId)[i].id]

\* C19 as claimed: once the panel has handled an event and shows the list
\* A, B, C(parent A), the root-level filter yields
\* A, B and the children-of-A filter yields C, which is listed nowhere else.
C19_RootRowsInListOrder ==
    (elements = <<ElA, ElB, ElC>> /\ panel.ev # "none") =>
        /\ RowIdsAt(0, Undefined) = <<"A", "B">>
        /\ RowIdsAt(1, Str("A")) = <<"C">>
        /\ Len(rows) = 3

\* C19 amended: for the list A, B, C(parent A) the root-level filter, which
\* the panel runs over the reversed list, yields B, A; the children-of-A
\* filter yields C; C is listed once, one level deep, right under A.
C19_RootRowsReversed ==
    elements = <<ElA, ElB, ElC>> =>
        /\ RowIdsAt(0, Undefined) = <<"B", "A">>
        /\ RowIdsAt(1, Str("A")) = <<"C">>
        /\ rows = <<Row(ElB, 0), Row(ElA, 0), Row(ElC, 1)>>

\* the list is A, B, C again after a drop moved C away and another moved it
\* back
C19_Witness ==
    /\ elements = <<ElA, ElB, ElC>>
    /\ DroppedOnOther
    /\ panel.before # elements
    /\ rows = <<Row(ElB, 0), Row(ElA, 0), Row(ElC, 1)>>

(***************************************************************************)
(* Renaming a layer (LayerItem).  Each row keeps isEditing and the text of *)
(* its input.                                                              *)
(***************************************************************************)
Whitespace == {" ", "\t", "\n"}

RECURSIVE TrimStart(_)
TrimStart(text) ==
    IF text # <<>> /\ Head(text) \in Whitespace THEN TrimStart(Tail(text)) ELSE text

\* name.trim()
Trim(text) == Reverse(TrimStart(Reverse(TrimStart(text))))

\* element.name || element.type
NameOrType(el) ==
    IF el.name.t = "str" /\ el.name.s # <<>> THEN el.name.s ELSE el.type

OnRenameElement(id, name) == [fn |-> "onRenameElement", id |-> id, name |-> name]

\* handleBlur that compares the text with '' without trimming it
handleBlur_NoTrim(el, name) ==
    IF name = <<>>
    THEN [isEditing |-> FALSE, name |-> NameOrType(el), calls |-> <<>>]
    ELSE [isEditing |-> FALSE, name |-> name, calls |-> <<OnRenameElement(el.id, name)>>]

\* handleBlur(): the row's state after it and the callbacks it invokes
handleBlur(el, name) ==
    IF Trim(name) = <<>>
    THEN [isEditing |-> FALSE, name |-> NameOrType(el), calls |-> <<>>]
    ELSE [isEditing |-> FALSE, name |-> name, calls |-> <<OnRenameElement(el.id, name)>>]

\* onRenameElement(id, name) sets the name of the element with the id
renameElement(els, id, name) ==
    [i \in 1..Len(els) |-> IF els[i].id = id THEN [els[i] EXCEPT !.name = Str(name)]
                           ELSE els[i]]

RECURSIVE ApplyRenames(_, _)
ApplyRenames(els, calls) ==
    IF calls = <<>> THEN els
    ELSE ApplyRenames(renameElement(els, Head(calls).id, Head(calls).name), Tail(calls))

ElE == Element("E", ImageType, Str(<<>>), Undefined)

InitialElementsRename == { <<ElA, ElB>>, <<ElE>> }

\* what is typed into the input
Texts == { <<>>, <<" ", "\t">>, <<"S", "e", "a">>, <<" ", "S", " ">> }

InitRename ==
    /\ InitIdleAssets
    /\ elements \in InitialElementsRename
    /\ rows = renderPanel(elements).rows
    /\ dataTransfer = ""
    /\ dragOverId = Null
    /\ editing = [id \in IdsOf(elements) |->
                    [isEditing |-> FALSE, name |-> NameOrType(ElementOf(elements, id))]]
    /\ panel = [ev |-> "none", id |-> "", text |-> <<>>, y |-> 0, calls |-> <<>>,
                before |-> elements]

\* onDoubleClick
DoubleClick(id) ==
    /\ id \in RowIds
    /\ editing' = [editing EXCEPT ![id].isEditing = TRUE]
    /\ panel' = Event("dblclick", id, editing[id].name, 0, <<>>)
    /\ Rerender(elements)
    /\ UNCHANGED <<dataTransfer, dragOverId>>

\* onChange of the input
Change(id, text) ==
    /\ id \in RowIds
    /\ editing[id].isEditing
    /\ editing' = [editing EXCEPT ![id].name = text]
    /\ panel' = Event("change", id, text, 0, <<>>)
    /\ Rerender(elements)
    /\ UNCHANGED <<dataTransfer, dragOverId>>

\* onBlur, or onKeyDown with Enter: handleBlur runs, the canvas carries out
\* the rename, and the row takes over the element's new name
Commit(id, key) ==
    LET r == handleBlur(ElementOf(elements, id), editing[id].name)
        els == ApplyRenames(elements, r.calls)
        el == ElementOf(els, id)
    IN  /\ id \in RowIds
        /\ editing[id].isEditing
        /\ editing' = [editing EXCEPT ![id] =
                          [isEditing |-> r.isEditing,
                           name |-> IF el.name # ElementOf(elements, id).name
                                    THEN NameOrType(el) ELSE r.name]]
        /\ panel' = Event(key, id, editing[id].name, 0, r.calls)
        /\ Rerender(els)
        /\ UNCHANGED <<dataTransfer, dragOverId>>

NextRename ==
    /\ \/ \E id \in {"A", "B", "E"} : DoubleClick(id)
       \/ \E id \in {"A", "B", "E"}, text \in Texts : Change(id, text)
       \/ \E id \in {"A", "B", "E"}, key \in {"blur", "Enter"} : Commit(id, key)
    /\ UNCHANGED <<assetVars, videoVars, imageVars, promptVars>>

SpecRename == InitRename /\ [][NextRename]_vars

Blank(text) == \A i \in 1..Len(text) : text[i] \in Whitespace

Committed == panel.ev \in {"blur", "Enter"}

\* C17: a commit (blur or Enter) of an empty or whitespace-only text invokes
\* no onRenameElement, leaves the element's name as it was, puts the previous
\* name (the type when the element has none) back in the field and ends the
\* edit; a commit of any other text invokes onRenameElement once, with the
\* element's id and the text.
C17_BlankRenameRejected ==
    Committed =>
        LET was == ElementOf(panel.before, panel.id)
        IN  /\ ~editing[panel.id].isEditing
            /\ IF Blank(panel.text)
               THEN /\ panel.calls = <<>>
                    /\ elements = panel.before
                    /\ editing[panel.id].name = NameOrType(was)
               ELSE /\ Len(panel.calls) = 1
                    /\ panel.calls[1] = OnRenameElement(panel.id, panel.text)

\* whitespace was committed with Enter on the row of an element without a
\* name: nothing was invoked and the field shows the type again
C17_Witness ==
    /\ panel.ev = "Enter"
    /\ panel.id = "B"
    /\ panel.text = <<" ", "\t">>
    /\ panel.calls = <<>>
    /\ ElementOf(elements, "B").name = Undefined
    /\ editing["B"].name = ImageType
    /\ ElementOf(elements, "A").name = Str(<<" ", "S", " ">>)

(***************************************************************************)
(* generateVideo (src/unnamed/part_005)                                    *)
(*                                                                         *)
(* The function is a sequence of synchronous stretches separated by        *)
(* awaits; pc names the await it is suspended at, and each action is the   *)
(* settling of that await followed by the code up to the next one.         *)
(* events lists, in order, what the call has done: every onProgress        *)
(* callback, every timer set and fired, every request issued and settled.  *)
(***************************************************************************)
\* most status polls the service answers "not done" to in one call
MaxPolls == 5

\* the delay between the progress message and the poll, in milliseconds
PollIntervalMs == 10000

progressMessages ==
    << "Rendering frames...", "Compositing video...",
       "Applying final touches...", "Almost there..." >>

Bool(b) == [t |-> "bool", b |-> b]

AspectRatios == {"16:9", "9:16"}

\* the optional image: left out, a data URL (the text before and after its
\* comma), or an href without a comma
ImageInputs ==
    { Undefined,
      [t |-> "obj", href |-> <<"data:image/png;base64", "iVBOR">>, mimeType |-> "image/png"],
      [t |-> "obj", href |-> <<"blob:1">>, mimeType |-> "image/png"] }

\* href.split(',')[1]
SecondPiece(href) == IF Len(href) >= 2 THEN Str(href[2]) ELSE Undefined

imagePart(image) ==
    IF Truthy(image)
    THEN [t |-> "obj", imageBytes |-> SecondPiece(image.href), mimeType |-> image.mimeType]
    ELSE Undefined

\* what the service may answer for the operation: done is left out, false or
\* true; error is left out or carries a message; the first generated video's
\* uri is left out, empty or a link
Operations ==
    [ done : {Undefined, Bool(FALSE), Bool(TRUE)},
      error : {Undefined, [t |-> "obj", message |-> Str("quota exceeded")]},
      uri : {Undefined, Str(""), Str("https://video/1")} ]

\* what a rejected request is rejected with
Rejections == {"network error"}

\* what the download may answer
Responses ==
    [ ok : BOOLEAN,
      statusText : {"Forbidden"},
      contentType : {Null, Str(""), Str("video/webm")} ]

OnProgress(message) == [e |-> "onProgress", message |-> message]
SetTimeout == [e |-> "setTimeout", ms |-> PollIntervalMs]
Timeout == [e |-> "timeout"]
GenerateVideos == [e |-> "generateVideos"]
GetVideosOperation == [e |-> "getVideosOperation"]
Fetch == [e |-> "fetch"]
Settled(how) == [e |-> how]

NoResult == [k |-> "none"]
Thrown(message) == [k |-> "error", message |-> message]
VideoResult(mimeType) == [k |-> "value", videoBlob |-> "blob", mimeType |-> mimeType]

\* !operation.done is false
IsDone(op) == op.done = Bool(TRUE)

Suspended(at, idx, log) ==
    [pc |-> at, messageIndex |-> idx, events |-> log, result |-> NoResult]

Throws(idx, log, message) ==
    [pc |-> "threw", messageIndex |-> idx, events |-> log, result |-> Thrown(message)]

\* the rotating message is not advanced
LoopBody_NoIncrement(idx, log) ==
    Suspended("awaitTimeout", idx,
              log \o << OnProgress(progressMessages[(idx % Len(progressMessages)) + 1]),
                        SetTimeout >>)

\* the loop's body up to its first await: the rotating message, the
\* increment, the timer
LoopBody(idx, log) ==
    Suspended("awaitTimeout", idx + 1,
              log \o << OnProgress(progressMessages[(idx % Len(progressMessages)) + 1]),
                        SetTimeout >>)

\* the operation's error is not looked at
Continue_NoErrorTest(op, idx, log) ==
    IF ~IsDone(op) THEN LoopBody(idx, log)
    ELSE IF ~Truthy(op.uri)
    THEN Throws(idx, log, <<"Video generation completed, but no download link was found.">>)
    ELSE Suspended("awaitFetch", idx,
                   log \o << OnProgress("Downloading generated video..."), Fetch >>)

\* from the loop's test to the next await or throw
Continue(op, idx, log) ==
    IF ~IsDone(op) THEN LoopBody(idx, log)
    ELSE IF Truthy(op.error)
    THEN Throws(idx, log, <<"Video generation failed: ", op.error.message.s>>)
    ELSE IF ~Truthy(op.uri)
    THEN Throws(idx, log, <<"Video generation completed, but no download link was found.">>)
    ELSE Suspended("awaitFetch", idx,
                   log \o << OnProgress("Downloading generated video..."), Fetch >>)

Resume(r) ==
    /\ pc' = r.pc
    /\ messageIndex' = r.messageIndex
    /\ events' = r.events
    /\ result' = r.result

InitVideo ==
    /\ InitWith({[k |-> "absent"]}, {"ok"})
    /\ IdleLayers
    /\ IdleVideo
    /\ IdleImages
    /\ IdlePrompt

\* generateVideo is called (no call is in progress): up to the await of
\* generateVideos
Start(aspectRatio, image) ==
    /\ pc \in {"idle", "returned", "threw"}
    /\ request' = [model |-> "veo-2.0-generate-001", image |-> imagePart(image),
                   numberOfVideos |-> 1, aspectRatio |-> aspectRatio]
    /\ operation' = Undefined
    /\ response' = Undefined
    /\ Resume(Suspended("awaitGenerate", 0,
                        << OnProgress("Initializing video generation..."), GenerateVideos >>))

\* generateVideos resolves with op
GenerateResolves(op) ==
    /\ pc = "awaitGenerate"
    /\ operation' = op
    /\ Resume(Continue(op, 0,
                       events \o << Settled("generated"),
                                    OnProgress("Generation started, this may take a few minutes.") >>))
    /\ UNCHANGED <<request, response>>

GenerateRejects(why) ==
    /\ pc = "awaitGenerate"
    /\ Resume(Throws(messageIndex, Append(events, Settled("generateRejected")), <<why>>))
    /\ UNCHANGED <<request, operation, response>>

\* the timer fires: the poll is issued
TimeoutFires ==
    /\ pc = "awaitTimeout"
    /\ Resume(Suspended("awaitPoll", messageIndex, events \o << Timeout, GetVideosOperation >>))
    /\ UNCHANGED <<request, operation, response>>

\* the poll resolves with op
PollResolves(op) ==
    /\ pc = "awaitPoll"
    /\ ~IsDone(op) => messageIndex < MaxPolls
    /\ operation' = op
    /\ Resume(Continue(op, messageIndex, Append(events, Settled("polled"))))
    /\ UNCHANGED <<request, response>>

PollRejects(why) ==
    /\ pc = "awaitPoll"
    /\ Resume(Throws(messageIndex, Append(events, Settled("pollRejected")), <<why>>))
    /\ UNCHANGED <<request, operation, response>>

\* the download answers
FetchResolves(res) ==
    /\ pc = "awaitFetch"
    /\ response' = res
    /\ Resume(IF ~res.ok
              THEN Throws(messageIndex, Append(events, Settled("fetched")),
                          <<"Failed to download video: ", res.statusText>>)
              ELSE Suspended("awaitBlob", messageIndex, Append(events, Settled("fetched"))))
    /\ UNCHANGED <<request, operation>>

FetchRejects(why) ==
    /\ pc = "awaitFetch"
    /\ Resume(Throws(messageIndex, Append(events, Settled("fetchRejected")), <<why>>))
    /\ UNCHANGED <<request, operation, response>>

\* response.blob() resolves: the call returns
BlobResolves ==
    /\ pc = "awaitBlob"
    /\ pc' = "returned"
    /\ events' = Append(events, Settled("blob"))
    /\ result' = VideoResult(IF Truthy(response.contentType)
                           THEN response.contentType.s ELSE "video/mp4")
    /\ UNCHANGED <<request, operation, messageIndex, response>>

BlobRejects(why) ==
    /\ pc = "awaitBlob"
    /\ Resume(Throws(messageIndex, Append(events, Settled("blobRejected")), <<why>>))
    /\ UNCHANGED <<request, operation, response>>

NextVideo ==
    /\ \/ \E aspectRatio \in AspectRatios, image \in ImageInputs : Start(aspectRatio, image)
       \/ \E op \in Operations : GenerateResolves(op)
       \/ \E why \in Rejections : GenerateRejects(why)
       \/ TimeoutFires
       \/ \E op \in Operations : PollResolves(op)
       \/ \E why \in Rejections : PollRejects(why)
       \/ \E res \in Responses : FetchResolves(res)
       \/ \E why \in Rejections : FetchRejects(why)
       \/ BlobResolves
       \/ \E why \in Rejections : BlobRejects(why)
    /\ UNCHANGED <<assetVars, layerVars, imageVars, promptVars>>

SpecVideo == InitVideo /\ [][NextVideo]_vars

\* the list of rotating messages the claim names
FixedList ==
    << "Rendering frames...", "Compositing video...",
       "Applying final touches...", "Almost there..." >>

IsRotating(ev) ==
    ev.e = "onProgress" /\ \E k \in 1..Len(FixedList) : ev.message = FixedList[k]

IsPoll(ev) == ev.e = "getVideosOperation"

PollSettled(ev) == ev.e \in {"polled", "pollRejected"}

CountBefore(i, P(_)) == Cardinality({j \in 1..(i - 1) : P(events[j])})

PollsInFlight == CountBefore(Len(events) + 1, IsPoll) - CountBefore(Len(events) + 1, PollSettled)

Follows(i, n, e) == i + n <= Len(events) => events[i + n].e = e

\* C20: in one call of generateVideo the rotating messages and the polls
\* alternate: the k-th rotating message (k = 0, 1, ...) is entry k mod 4 of
\* the fixed list and is the only one between poll k-1 and poll k; what
\* follows it is the timer, the timer's firing and then the poll, in that
\* order; a poll is issued only after the previous poll has settled, so at
\* most one poll is in flight, and no rotating message is emitted while one is.
C20_ProgressAndPollsAlternate ==
    /\ PollsInFlight \in {0, 1}
    /\ PollsInFlight = 1 <=> pc = "awaitPoll"
    /\ \A i \in 1..Len(events) :
        /\ IsRotating(events[i]) =>
            /\ events[i].message = FixedList[(CountBefore(i, IsRotating) % 4) + 1]
            /\ CountBefore(i, IsPoll) = CountBefore(i, IsRotating)
            /\ CountBefore(i, PollSettled) = CountBefore(i, IsPoll)
            /\ events[i - 1].e \in {"onProgress", "polled"}
            /\ events[i - 1].e = "onProgress" =>
                   events[i - 1].message = "Generation started, this may take a few minutes."
            /\ Follows(i, 1, "setTimeout")
            /\ Follows(i, 2, "timeout")
            /\ Follows(i, 3, "getVideosOperation")
        /\ IsPoll(events[i]) =>
            /\ IsRotating(events[i - 3])
            /\ events[i - 2] = SetTimeout
            /\ events[i - 1] = Timeout
            /\ CountBefore(i, IsRotating) = CountBefore(i, IsPoll) + 1
            /\ CountBefore(i, PollSettled) = CountBefore(i, IsPoll)

\* the fifth poll is in flight: the message before it was the first entry of
\* the list again, after all four entries had been shown once
C20_Witness ==
    /\ pc = "awaitPoll"
    /\ CountBefore(Len(events) + 1, IsPoll) = 5
    /\ events[Len(events) - 3] = OnProgress("Rendering frames...")
    /\ \E i \in 1..Len(events) : events[i] = OnProgress("Almost there...")

\* C21: a poll is issued only while the operation the call holds has reported
\* neither done nor an error: whenever a poll is in flight, the operation
\* last reported is not done and carries no error.
C21_NoPollAfterDoneOrError ==
    pc = "awaitPoll" => ~IsDone(operation) /\ ~Truthy(operation.error)

(***************************************************************************)
(* editImage and generateImageFromText (src/unnamed/part_005)              *)
(*                                                                         *)
(* Each call is one await: the action that starts the call builds the      *)
(* request, the action that settles the await runs the rest of the         *)
(* function, inside its try / catch.                                       *)
(***************************************************************************)
\* most input images of one editImage call
MaxImages == 2

\* most parts of one response candidate
MaxParts == 2

Obj1(k, v) == [t |-> "obj"] @@ (k :> v)

InlinePart(data, mimeType) ==
    [t |-> "obj", inlineData |-> [t |-> "obj", data |-> data, mimeType |-> mimeType]]

TextPart(text) == [t |-> "obj", text |-> Str(text)]

\* sequences over S of length at most n
SeqUpTo(S, n) == UNION { [1..k -> S] : k \in 0..n }

\* the images and the mask a caller may pass: data URLs and an href without
\* a comma
EditImages ==
    { [t |-> "obj", href |-> <<"data:image/png;base64", "iVBOR">>, mimeType |-> "image/png"],
      [t |-> "obj", href |-> <<"blob:1">>, mimeType |-> "image/jpeg"] }

Masks ==
    { Undefined,
      [t |-> "obj", href |-> <<"data:image/png;base64", "MASK">>, mimeType |-> "image/png"],
      [t |-> "obj", href |-> <<"blob:2">>, mimeType |-> "image/png"] }

Prompts == {"add a hat", ""}

\* dataUrlParts.length > 1 ? dataUrlParts[1] : dataUrlParts[0]
Base64Data(href) == IF Len(href) > 1 THEN href[2] ELSE href[1]

imageParts(images) ==
    [i \in 1..Len(images) |-> InlinePart(Str(Base64Data(images[i].href)), images[i].mimeType)]

maskPart(mask) ==
    IF Truthy(mask) THEN InlinePart(SecondPiece(mask.href), mask.mimeType) ELSE Null

\* the mask is put first
editImageParts_MaskFirst(images, promptText, mask) ==
    IF Truthy(maskPart(mask))
    THEN <<maskPart(mask), TextPart(promptText)>> \o imageParts(images)
    ELSE imageParts(images) \o <<TextPart(promptText)>>

\* the request's parts
editImageParts(images, promptText, mask) ==
    IF Truthy(maskPart(mask))
    THEN <<TextPart(promptText)>> \o imageParts(images) \o <<maskPart(mask)>>
    ELSE imageParts(images) \o <<TextPart(promptText)>>

\* the parts a response candidate may hold
ResponseParts ==
    { InlinePart(Str("NEWIMG"), Str("image/png")),
      InlinePart(Undefined, Undefined),
      TextPart("Here is your image"),
      TextPart("") }

PartLists == {Undefined} \cup { Arr(ps) : ps \in SeqUpTo(ResponseParts, MaxParts) }

Contents == {Undefined} \cup { Obj1("parts", ps) : ps \in PartLists }

Candidates ==
    { [t |-> "obj", content |-> c, finishReason |-> f] :
        c \in Contents, f \in {Undefined, Str("SAFETY")} }

\* what generateContent may resolve with
ContentResponses ==
    { Obj1("candidates", cs) :
        cs \in {Undefined, Arr(<<>>)} \cup { Arr(<<c>>) : c \in Candidates } }

GeneratedImages ==
    { Obj1("image", Obj1("imageBytes", Str("PNG"))),
      Obj1("image", Obj1("imageBytes", Undefined)),
      Obj1("raiFilteredReason", Str("blocked")) }

\* what generateImages may resolve with
ImagesResponses ==
    { Obj1("generatedImages", gs) :
        gs \in {Undefined, Arr(<<>>)} \cup { Arr(<<g>>) : g \in GeneratedImages } }

\* an Error instance
Error(message) == [t |-> "error", message |-> message]

\* what a request may be rejected with: an Error, or a value that is none
ImageRejections == { Error("quota exceeded"), Str("timeout") }

ImageValue(newImageBase64, newImageMimeType, textResponse) ==
    [k |-> "value", newImageBase64 |-> newImageBase64,
     newImageMimeType |-> newImageMimeType, textResponse |-> textResponse]

\* the catch block of both functions
Catch(error) ==
    IF error.t = "error"
    THEN Thrown("Gemini API Error: " \o error.message)
    ELSE Thrown("An unknown error occurred while contacting the Gemini API.")

\* the loop over the response's parts, from part i on
RECURSIVE ScanParts(_, _, _)
ScanParts(parts, i, acc) ==
    IF i > Len(parts) THEN acc
    ELSE LET part == parts[i]
             inlineData == GetProp(part, "inlineData")
         IN  ScanParts(parts, i + 1,
                 IF Truthy(inlineData)
                 THEN [acc EXCEPT !.newImageBase64 = GetProp(inlineData, "data"),
                                  !.newImageMimeType = GetProp(inlineData, "mimeType")]
                 ELSE IF Truthy(GetProp(part, "text"))
                 THEN [acc EXCEPT !.textResponse = part.text]
                 ELSE acc)

HasCandidate(resp) ==
    /\ Truthy(GetProp(resp, "candidates"))
    /\ Len(resp.candidates.a) > 0

\* the else branch: the blocked message, with the finish reason when there is one
Blocked(resp) ==
    LET text == "The AI response was blocked or did not contain content."
    IN  IF HasCandidate(resp) /\ Truthy(resp.candidates.a[1].finishReason)
        THEN Str(text \o " (Reason: " \o resp.candidates.a[1].finishReason.s \o ")")
        ELSE Str(text)

\* the last statements of the try block
Finish(acc) ==
    IF ~Truthy(acc.newImageBase64)
    THEN [acc EXCEPT !.textResponse =
              IF Truthy(acc.textResponse) THEN acc.textResponse
              ELSE Str("The AI did not generate a new image. Please try a different prompt.")]
    ELSE acc

\* editImage after generateContent has resolved
editImageParse(resp) ==
    IF HasCandidate(resp) /\ Truthy(resp.candidates.a[1].content)
    THEN LET parts == GetProp(resp.candidates.a[1].content, "parts")
         IN  IF parts.t # "arr"
             THEN Catch(Error("parts is not iterable"))
             ELSE Finish(ScanParts(parts.a, 1, ImageValue(Null, Null, Null)))
    ELSE Finish(ImageValue(Null, Null, Blocked(resp)))

\* generateImageFromText after generateImages has resolved
generateImageParse(resp) ==
    LET generatedImages == GetProp(resp, "generatedImages")
    IN  IF Truthy(generatedImages) /\ Len(generatedImages.a) > 0
        THEN LET image == generatedImages.a[1]
             IN  IF ~Truthy(GetProp(image, "image"))
                 THEN Catch(Error("Cannot read properties of undefined (reading 'imageBytes')"))
                 ELSE ImageValue(GetProp(image.image, "imageBytes"), Str("image/png"), Null)
        ELSE ImageValue(Null, Null,
                        Str("The AI did not generate an image. Please try a different prompt."))

Settle(outcome, res) ==
    /\ imagePc' = IF res.k = "value" THEN "returned" ELSE "threw"
    /\ imageResponse' = outcome
    /\ imageResult' = res
    /\ UNCHANGED imageRequest

NoImageCall == imagePc \in {"idle", "returned", "threw"}

InitImages ==
    /\ InitWith({[k |-> "absent"]}, {"ok"})
    /\ IdleLayers
    /\ IdleVideo
    /\ IdleImages
    /\ IdlePrompt

\* editImage is called: up to the await of generateContent
EditImage(images, promptText, mask) ==
    /\ NoImageCall
    /\ imagePc' = "awaitContent"
    /\ imageRequest' = [fn |-> "editImage", model |-> "gemini-2.5-flash-image-preview",
                        images |-> images, prompt |-> promptText, mask |-> mask,
                        parts |-> editImageParts(images, promptText, mask)]
    /\ imageResponse' = [k |-> "none"]
    /\ imageResult' = NoResult

ContentResolves(res) ==
    /\ imagePc = "awaitContent"
    /\ Settle([k |-> "resolved", response |-> res], editImageParse(res))

ContentRejects(error) ==
    /\ imagePc = "awaitContent"
    /\ Settle([k |-> "rejected", error |-> error], Catch(error))

\* generateImageFromText is called: up to the await of generateImages
GenerateImageFromText(promptText) ==
    /\ NoImageCall
    /\ imagePc' = "awaitImages"
    /\ imageRequest' = [fn |-> "generateImageFromText", model |-> "imagen-4.0-generate-001",
                        prompt |-> promptText, numberOfImages |-> 1,
                        outputMimeType |-> "image/png"]
    /\ imageResponse' = [k |-> "none"]
    /\ imageResult' = NoResult

ImagesResolves(res) ==
    /\ imagePc = "awaitImages"
    /\ Settle([k |-> "resolved", response |-> res], generateImageParse(res))

ImagesRejects(error) ==
    /\ imagePc = "awaitImages"
    /\ Settle([k |-> "rejected", error |-> error], Catch(error))

NextImages ==
    /\ \/ \E images \in SeqUpTo(EditImages, MaxImages), promptText \in Prompts, mask \in Masks :
              EditImage(images, promptText, mask)
       \/ \E res \in ContentResponses : ContentResolves(res)
       \/ \E error \in ImageRejections : ContentRejects(error)
       \/ \E promptText \in Prompts : GenerateImageFromText(promptText)
       \/ \E res \in ImagesResponses : ImagesResolves(res)
       \/ \E error \in ImageRejections : ImagesRejects(error)
    /\ UNCHANGED <<assetVars, layerVars, videoVars, promptVars>>

SpecImages == InitImages /\ [][NextImages]_vars

IsTextPart(part) == "text" \in DOMAIN part

\* the request succeeded and its answer holds no image: no candidates, a
\* candidate without content, content without parts, or text parts only;
\* for generateImages, no generated images
NoImage ==
    /\ imageResponse.k = "resolved"
    /\ LET resp == imageResponse.response
       IN  IF imageRequest.fn = "editImage"
           THEN \/ ~HasCandidate(resp)
                \/ ~Truthy(resp.candidates.a[1].content)
                \/ LET parts == resp.candidates.a[1].content.parts
                   IN  \/ parts.t # "arr"
                       \/ \A i \in 1..Len(parts.a) : IsTextPart(parts.a[i])
           ELSE ~Truthy(resp.generatedImages) \/ Len(resp.generatedImages.a) = 0

\* C22: a call whose request succeeded without an image returns, with
\* newImageBase64 = null and a textResponse that is not null; and every
\* returned result has a newImageBase64 or a textResponse that is not null.
C22_EmptyResultIsReturned ==
    /\ NoImage =>
        /\ imageResult.k = "value"
        /\ imageResult.newImageBase64 = Null
        /\ imageResult.textResponse # Null
    /\ imageResult.k = "value" =>
        imageResult.newImageBase64 # Null \/ imageResult.textResponse # Null

(***************************************************************************)
(* The three service functions side by side: a video call and an image    *)
(* call may be in progress at the same time.                               *)
(***************************************************************************)
NextGemini ==
    /\ \/ Start("16:9", Undefined) /\ UNCHANGED imageVars
       \/ (\E op \in Operations : GenerateResolves(op)) /\ UNCHANGED imageVars
       \/ (\E why \in Rejections : GenerateRejects(why)) /\ UNCHANGED imageVars
       \/ TimeoutFires /\ UNCHANGED imageVars
       \/ (\E op \in Operations : PollResolves(op)) /\ UNCHANGED imageVars
       \/ (\E why \in Rejections : PollRejects(why)) /\ UNCHANGED imageVars
       \/ (\E res \in Responses : FetchResolves(res)) /\ UNCHANGED imageVars
       \/ (\E why \in Rejections : FetchRejects(why)) /\ UNCHANGED imageVars
       \/ BlobResolves /\ UNCHANGED imageVars
       \/ (\E why \in Rejections : BlobRejects(why)) /\ UNCHANGED imageVars
       \/ (\E image \in EditImages : EditImage(<<image>>, "add a hat", Undefined))
              /\ UNCHANGED videoVars
       \/ (\E res \in {Obj1("candidates", Undefined),
                       Obj1("candidates", Arr(<<[t |-> "obj",
                            content |-> Obj1("parts", Arr(<<InlinePart(Str("NEWIMG"), Str("image/png"))>>)),
                            finishReason |-> Undefined]>>))} : ContentResolves(res))
              /\ UNCHANGED videoVars
       \/ (\E error \in ImageRejections : ContentRejects(error)) /\ UNCHANGED videoVars
       \/ GenerateImageFromText("add a hat") /\ UNCHANGED videoVars
       \/ (\E res \in {Obj1("generatedImages", Arr(<<>>)),
                       Obj1("generatedImages", Arr(<<Obj1("image", Obj1("imageBytes", Str("PNG")))>>))} :
               ImagesResolves(res))
              /\ UNCHANGED videoVars
       \/ (\E error \in ImageRejections : ImagesRejects(error)) /\ UNCHANGED videoVars
    /\ UNCHANGED <<assetVars, layerVars, promptVars>>

SpecGemini == InitImages /\ [][NextGemini]_vars

LastEvent == events[Len(events)].e

Emitted(message) == \E i \in 1..Len(events) : events[i] = OnProgress(message)

VideoEnded == pc \in {"returned", "threw"}

\* C23: every failure of the external API ends the call by a throw whose
\* message holds the upstream message when there is one, and no result is
\* returned.  For the image functions: a rejected request throws
\* "Gemini API Error: " followed by the Error's message, or the unknown-error
\* text for a rejection that is no Error.  For generateVideo: a rejected
\* request, poll or download throws what it was rejected with; an operation
\* finished with an error throws "Video generation failed: " followed by the
\* error's message; a finished operation without a link and a download
\* response that is not ok throw their own texts; and no video is returned
\* and no 'Downloading generated video...' emitted for an operation that
\* finished with an error.
C23_FailuresThrow ==
    /\ imageResponse.k = "rejected" =>
        /\ imagePc = "threw"
        /\ imageResult =
             IF imageResponse.error.t = "error"
             THEN Thrown("Gemini API Error: " \o imageResponse.error.message)
             ELSE Thrown("An unknown error occurred while contacting the Gemini API.")
    /\ (pc # "idle" /\ LastEvent \in {"generateRejected", "pollRejected", "fetchRejected"}) =>
        /\ pc = "threw"
        /\ \E why \in Rejections : result = Thrown(<<why>>)
    /\ (operation # Undefined /\ IsDone(operation) /\ Truthy(operation.error)) =>
        /\ pc = "threw"
        /\ result = Thrown(<<"Video generation failed: ", operation.error.message.s>>)
        /\ ~Emitted("Downloading generated video...")
    /\ (operation # Undefined /\ IsDone(operation) /\ ~Truthy(operation.error)
            /\ ~Truthy(operation.uri)) =>
        /\ pc = "threw"
        /\ result = Thrown(<<"Video generation completed, but no download link was found.">>)
        /\ ~Emitted("Downloading generated video...")
    /\ (response # Undefined /\ ~response.ok) =>
        /\ pc = "threw"
        /\ result = Thrown(<<"Failed to download video: ", response.statusText>>)
    /\ pc = "threw" <=> result.k = "error"
    /\ imagePc = "threw" <=> imageResult.k = "error"
    /\ result.k = "value" => IsDone(operation) /\ ~Truthy(operation.error)

\* a poll answered done with an error and a link: the call threw the
\* upstream message without starting the download, while an image call had
\* been rejected with an Error
C23_Witness ==
    /\ pc = "threw"
    /\ LastEvent = "polled"
    /\ operation = [done |-> Bool(TRUE), error |-> [t |-> "obj", message |-> Str("quota exceeded")],
                    uri |-> Str("https://video/1")]
    /\ result = Thrown(<<"Video generation failed: ", "quota exceeded">>)
    /\ imageResponse = [k |-> "rejected", error |-> Error("quota exceeded")]
    /\ imageResult = Thrown("Gemini API Error: quota exceeded")

EditImageCalled == imageRequest # Undefined /\ imageRequest.fn = "editImage"

ImagePartOf(image) == InlinePart(Str(Base64Data(image.href)), image.mimeType)

\* C24: the parts editImage sends are, with a mask: the prompt, the images
\* in input order, the mask, which is the last part and occurs once;
\* without a mask: the images in input order, then the prompt.
C24_PartsOrder ==
    EditImageCalled =>
        LET ps == imageRequest.parts
            images == imageRequest.images
            mask == imageRequest.mask
            n == Len(images)
            maskP == InlinePart(SecondPiece(mask.href), mask.mimeType)
        IN  IF mask # Undefined
            THEN /\ Len(ps) = n + 2
                 /\ ps[1] = TextPart(imageRequest.prompt)
                 /\ \A i \in 1..n : ps[i + 1] = ImagePartOf(images[i])
                 /\ ps[n + 2] = maskP
                 /\ Cardinality({i \in 1..Len(ps) : ps[i] = maskP}) = 1
            ELSE /\ Len(ps) = n + 1
                 /\ \A i \in 1..n : ps[i] = ImagePartOf(images[i])
                 /\ ps[n + 1] = TextPart(imageRequest.prompt)

\* two different images and a mask were sent: prompt, first image, second
\* image, mask
C24_Witness ==
    /\ EditImageCalled
    /\ imagePc = "awaitContent"
    /\ imageRequest.mask # Undefined
    /\ Len(imageRequest.images) = 2
    /\ imageRequest.images[1] # imageRequest.images[2]
    /\ Len(imageRequest.parts) = 4
    /\ imageRequest.parts[2].inlineData.data = Str("iVBOR")
    /\ imageRequest.parts[3].inlineData.data = Str("blob:1")
    /\ imageRequest.parts[4].inlineData.data = Str("MASK")

\* C25: every reorder request of a drop carries the position given by the
\* drop point alone: after when its offset from the row's top is more than
\* half the row's height, before when it is in the upper half or on the
\* midpoint; neither the dragged row nor the target row changes it.
C25_PositionFromDropPoint ==
    panel.ev = "drop" =>
        \A i \in 1..Len(panel.calls) :
            panel.calls[i].position =
                IF 2 * panel.y > RowHeight THEN "after" ELSE "before"

\* a row was dropped on the midpoint of another row: before was requested
C25_Witness ==
    /\ DroppedOnOther
    /\ 2 * panel.y = RowHeight
    /\ panel.calls # <<>>
    /\ panel.calls[1].position = "before"

\* C26: a drop of one row on another makes one onReorder request, and no
\* drop makes more than one.
C26_OneRequestPerDrop ==
    /\ DroppedOnOther => Len(panel.calls) = 1
    /\ panel.ev = "drop" => Len(panel.calls) <= 1

\* C27: every onReorder request of a drop names, as draggedId, the id of an
\* element of the list; a drop of text that is no such id requests nothing.
C27_DraggedIdIsAnElement ==
    panel.ev = "drop" =>
        \A i \in 1..Len(panel.calls) : panel.calls[i].draggedId \in IdsOf(panel.before)

(***************************************************************************)
(* The tree projection over element lists whose parentId may dangle or lie *)
(* on a cycle: the canvas hands the panel a list and then changes parents. *)
(***************************************************************************)
\* most elements of a list
MaxElements == 3

TreeIds == <<"A", "B", "C", "D", "E">>

\* the parents an element may be given: none, an element's id, or an id
\* that no element has
ParentIds(n) == {Undefined, Str("X")} \cup {Str(TreeIds[i]) : i \in 1..n}

InitTree ==
    /\ InitIdleAssets
    /\ \E n \in 1..MaxElements :
          elements = [i \in 1..n |-> Element(TreeIds[i], ImageType, Undefined, Undefined)]
    /\ rows = renderPanel(elements).rows
    /\ dataTransfer = ""
    /\ dragOverId = Null
    /\ editing = [id \in {} |-> NotEditing]
    /\ panel = [ev |-> "none", id |-> "", text |-> "", y |-> 0, calls |-> <<>>,
                before |-> elements]

\* the canvas gives element i another parentId and the panel renders again
Reparent(i, parentId) ==
    /\ i \in 1..Len(elements)
    /\ panel' = Event("elements", elements[i].id, "", 0, <<>>)
    /\ Rerender([elements EXCEPT ![i].parentId = parentId])
    /\ UNCHANGED <<dataTransfer, dragOverId, editing>>

NextTree ==
    /\ \E i \in 1..MaxElements, parentId \in ParentIds(MaxElements) : Reparent(i, parentId)
    /\ UNCHANGED <<assetVars, videoVars, imageVars, promptVars>>

SpecTree == InitTree /\ [][NextTree]_vars

RECURSIVE DepthOf(_, _, _)
\* the number of parentId steps from the element to one without parentId,
\* -1 when the chain dangles or has not ended after fuel steps
DepthOf(els, id, fuel) ==
    IF id \notin IdsOf(els) \/ fuel < 0 THEN -1
    ELSE LET el == ElementOf(els, id)
         IN  IF el.parentId = Undefined THEN 0
             ELSE LET up == DepthOf(els, el.parentId.s, fuel - 1)
                  IN  IF up < 0 THEN -1 ELSE up + 1

RowOf(id) == CHOOSE i \in 1..Len(rows) : rows[i].id = id

\* C28: the projection of a list with unique ids lists no element twice;
\* it lists exactly the elements whose parentId chain ends at an element
\* without parentId, each at the level that is its depth and after its
\* parent; elements whose chain dangles or runs in a cycle are not listed.
C28_TreeProjection ==
    /\ rows = renderOrderedLayers(Reverse(elements), 0, Undefined)
    /\ \A i, j \in 1..Len(rows) : rows[i].id = rows[j].id => i = j
    /\ \A k \in 1..Len(elements) :
         LET id == elements[k].id
             depth == DepthOf(elements, id, Len(elements))
         IN  /\ id \in RowIds <=> depth >= 0
             /\ id \in RowIds =>
                  /\ rows[RowOf(id)].level = depth
                  /\ depth > 0 =>
                       /\ elements[k].parentId.s \in RowIds
                       /\ RowOf(elements[k].parentId.s) < RowOf(id)

\* A and B are each other's parent and are not listed; C is listed
C28_Witness ==
    /\ Len(elements) = 3
    /\ ElementOf(elements, "A").parentId = Str("B")
    /\ ElementOf(elements, "B").parentId = Str("A")
    /\ RowIds = {"C"}

\* C29: a mutator that returns changes the array of one category only, the
\* item's for addAsset and the one it is called with for removeAsset and
\* renameAsset: the returned library has the keys of the argument and, under
\* every other key, what the argument has, items with the same id included.
C29_OtherCategoriesKept ==
    MutatorReturned =>
        /\ DOMAIN last.ret = DOMAIN last.arg
        /\ \A c \in (DOMAIN last.arg) \ {last.category} : last.ret[c] = last.arg[c]

\* the character with id a was removed while a scene has the same id: the
\* scene is still there
C29_Witness ==
    /\ Returned("remove")
    /\ last.category = "character"
    /\ last.id = "a"
    /\ last.arg.character = Arr(<<Hero>>)
    /\ last.arg.scene = Arr(<<Place>>)
    /\ last.ret.character = Arr(<<>>)
    /\ last.ret.scene = Arr(<<Place>>)

(***************************************************************************)
(* Prompt bar (src/components/PromptBar.tsx)                               *)
(*                                                                         *)
(* prompt and isLoading are props: the parent owns them and may change     *)
(* them at any time.  bar is the latest event with the props the bar had   *)
(* when it came and the callbacks it invoked.                              *)
(***************************************************************************)
\* most characters of a prompt
MaxPrompt == 2

Keys == {"Enter", "a", " "}

OnGenerate == [fn |-> "onGenerate"]

\* handleKeyDown that does not look at isLoading
handleKeyDown_NoLoadingTest(key, shiftKey, loading, text) ==
    IF key = "Enter" /\ ~shiftKey
    THEN [preventDefault |-> TRUE,
          calls |-> IF Trim(text) # <<>> THEN <<OnGenerate>> ELSE <<>>]
    ELSE [preventDefault |-> FALSE, calls |-> <<>>]

\* handleKeyDown(e): whether it prevents the key's default action, and the
\* callbacks it invokes
handleKeyDown(key, shiftKey, loading, text) ==
    IF key = "Enter" /\ ~shiftKey
    THEN [preventDefault |-> TRUE,
          calls |-> IF ~loading /\ Trim(text) # <<>> THEN <<OnGenerate>> ELSE <<>>]
    ELSE [preventDefault |-> FALSE, calls |-> <<>>]

\* the generate button's disabled attribute
generateDisabled(loading, text) == loading \/ Trim(text) = <<>>

\* a click on the generate button: a disabled button gets no click
clickGenerate(loading, text) ==
    IF generateDisabled(loading, text) THEN <<>> ELSE <<OnGenerate>>

\* the character the key types into the textarea
Typed(key) == IF key = "Enter" THEN "\n" ELSE key

BarEvent(ev, key, shiftKey, calls) ==
    [ev |-> ev, key |-> key, shiftKey |-> shiftKey, isLoading |-> isLoading,
     prompt |-> prompt, calls |-> calls]

InitPrompt ==
    /\ InitWith({[k |-> "absent"]}, {"ok"})
    /\ IdleLayers
    /\ IdleVideo
    /\ IdleImages
    /\ prompt = <<>>
    /\ isLoading = FALSE
    /\ bar = BarEvent("none", "", FALSE, <<>>)

\* a key goes down in the textarea: handleKeyDown, and then, unless it was
\* prevented or the textarea is disabled or full, the key's character is
\* typed and onChange hands the new text to setPrompt
KeyDown(key, shiftKey) ==
    LET r == handleKeyDown(key, shiftKey, isLoading, prompt)
    IN  /\ bar' = BarEvent("keydown", key, shiftKey, r.calls)
        /\ prompt' = IF ~r.preventDefault /\ ~isLoading /\ Len(prompt) < MaxPrompt
                     THEN Append(prompt, Typed(key)) ELSE prompt
        /\ UNCHANGED isLoading

\* the generate button is clicked
Click ==
    /\ bar' = BarEvent("click", "", FALSE, clickGenerate(isLoading, prompt))
    /\ UNCHANGED <<prompt, isLoading>>

\* the parent gives the bar another prompt (a quick prompt, a cleared field)
SetPrompt(text) ==
    /\ prompt' = text
    /\ bar' = BarEvent("props", "", FALSE, <<>>)
    /\ UNCHANGED isLoading

\* the parent starts or ends a generation
SetLoading(loading) ==
    /\ isLoading' = loading
    /\ bar' = BarEvent("props", "", FALSE, <<>>)
    /\ UNCHANGED prompt

NextPrompt ==
    /\ \/ \E key \in Keys, shiftKey \in BOOLEAN : KeyDown(key, shiftKey)
       \/ Click
       \/ \E text \in {<<>>, <<"a">>} : SetPrompt(text)
       \/ \E loading \in BOOLEAN : SetLoading(loading)
    /\ UNCHANGED <<assetVars, layerVars, videoVars, imageVars>>

SpecPrompt == InitPrompt /\ [][NextPrompt]_vars

\* C30: the bar invokes onGenerate at most once per event, only on Enter
\* without Shift or on a click of the generate button, and only when, at
\* that event, isLoading is false and the prompt has a character that is not
\* whitespace; so no event that comes while isLoading is true requests a
\* generation.
C30_NoGenerateWhileLoadingOrBlank ==
    /\ Len(bar.calls) <= 1
    /\ bar.calls # <<>> =>
        /\ bar.calls = <<OnGenerate>>
        /\ ~bar.isLoading
        /\ \E i \in 1..Len(bar.prompt) : bar.prompt[i] \notin {" ", "\t", "\n"}
        /\ \/ bar.ev = "click"
           \/ bar.ev = "keydown" /\ bar.key = "Enter" /\ ~bar.shiftKey

\* Enter went down on a prompt with text while a generation was in flight:
\* nothing was requested
C30_Witness ==
    /\ bar.ev = "keydown"
    /\ bar.key = "Enter"
    /\ ~bar.shiftKey
    /\ bar.isLoading
    /\ bar.prompt = <<"a", "\n">>
    /\ bar.calls = <<>>

====
